---- MODULE Spec2Model ----
(***************************************************************************)
(* TheraBot: the conversation store (whatsapp/conversation_store.js), the  *)
(* completion gateway (azure_openai/openai_service.js) and the three       *)
(* transport variants of the inbound-message handler (the Twilio webhook,  *)
(* the whatsapp-web.js session client with retries, and the simple         *)
(* whatsapp-web.js client).                                                *)
(*                                                                         *)
(* Texts are TLA+ strings handled character by character, so that the      *)
(* parsing the code does (startsWith, split, toLowerCase, the mood regex)  *)
(* is computed and not assumed.  The emoji of the reply texts are left out *)
(* or written as their names, and the long help and upgrade texts are      *)
(* given by their first line.                                              *)
(***************************************************************************)
EXTENDS Integers, Sequences, FiniteSets, TLC

VARIABLES
    variant,        \* which transport variant this process runs
    now,            \* Date.now(): the clock, read by the store
    conversations,  \* Map userId -> history array (a reference), 0: no entry
    arrays,         \* the history arrays themselves, by reference
    userData,       \* Map userId -> user object
    req,            \* the inbound-message handlers in flight, per slot
    received,       \* inbound messages received so far
    calls,          \* direct calls of the store's exported functions so far
    saved,          \* per user: exchanges passed to saveConversation since the last clear
    upgraded,       \* per user: isPremium was truthy at some time since the history was last empty
    dropped,        \* per user: entries the last clearConversationHistory call removed
    faults,         \* how many provider calls and sends have failed so far
    warmup,         \* per user: what is left of the warm-up script of the store specification
    admin,          \* the last call of the administrative endpoint: the key presented, the status answered
    retry,          \* a call of retryOperation on its own: its arguments, its position, the delays it waited
    client          \* the whatsapp-web.js client of the session variant: its connection and its reconnections

vars == <<variant, now, conversations, arrays, userData, req, received, calls, saved, upgraded, dropped, faults, warmup, admin, retry, client>>

(***************************************************************************)
(* Bounds of the model                                                     *)
(***************************************************************************)
NumHandlers == 2
MaxMsgs == 2
MaxCalls == 2
MaxAdmin == 1
MaxFaults == 5
LiveMsgs == 1

Users == {"u1", "u2"}
Handlers == 1..NumHandlers
Refs == 1..(Cardinality(Users) + NumHandlers)
Variants == {"webhook", "session", "simple"}

(***************************************************************************)
(* JavaScript strings                                                      *)
(***************************************************************************)
UpperCase == "ABCDEFGHIJKLMNOPQRSTUVWXYZ"
LowerCase == "abcdefghijklmnopqrstuvwxyz"

CharAt(s, i) == SubSeq(s, i, i)

LowerChar(c) ==
    IF \E i \in 1..Len(UpperCase) : CharAt(UpperCase, i) = c
    THEN CharAt(LowerCase, CHOOSE i \in 1..Len(UpperCase) : CharAt(UpperCase, i) = c)
    ELSE c

RECURSIVE toLowerCase(_)
toLowerCase(s) ==
    IF Len(s) = 0 THEN "" ELSE LowerChar(CharAt(s, 1)) \o toLowerCase(SubSeq(s, 2, Len(s)))

\* the freeform texts the users send and the prompts the exercise and
\* affirmation commands synthesize
FreeformTexts == {"hello", "My mood is 7/10"}
CommandTexts ==
    {"/help", "/upgrade", "/mood", "/clear", "/exercise", "/affirmation",
     "/foo", "/Help me", "/helpme", "/clearance"}
WebhookExercisePrompt ==
    "[EXERCISE REQUEST] Please provide a helpful mental health coping exercise"
WebhookAffirmationPrompt ==
    "[AFFIRMATION REQUEST] Please provide a positive and supportive affirmation"
ClientExercisePrompt == "[COPING EXERCISE REQUEST] Please provide a coping exercise"
ClientAffirmationPrompt == "[AFFIRMATION REQUEST] Please provide a positive affirmation"

\* toLowerCase of the texts the handlers pass around, computed once
LowerCased ==
    [s \in FreeformTexts \cup CommandTexts \cup
           {WebhookExercisePrompt, WebhookAffirmationPrompt,
            ClientExercisePrompt, ClientAffirmationPrompt}
        |-> toLowerCase(s)]

Lower(s) == IF s \in DOMAIN LowerCased THEN LowerCased[s] ELSE toLowerCase(s)

startsWith(s, p) == Len(s) >= Len(p) /\ SubSeq(s, 1, Len(p)) = p

includes(s, sub) ==
    \E i \in 1..(Len(s) - Len(sub) + 1) : SubSeq(s, i, i + Len(sub) - 1) = sub

IsSpace(c) == c \in {" ", "\t", "\n", "\r", "\f"}

RECURSIVE trimStart(_)
trimStart(s) ==
    IF Len(s) > 0 /\ IsSpace(CharAt(s, 1)) THEN trimStart(SubSeq(s, 2, Len(s))) ELSE s

RECURSIVE trimEnd(_)
trimEnd(s) ==
    IF Len(s) > 0 /\ IsSpace(CharAt(s, Len(s))) THEN trimEnd(SubSeq(s, 1, Len(s) - 1)) ELSE s

trim(s) == trimEnd(trimStart(s))

\* s.split(' ')[0]: the text before the first space
RECURSIVE splitFirst(_)
splitFirst(s) ==
    IF Len(s) = 0 \/ CharAt(s, 1) = " " THEN ""
    ELSE CharAt(s, 1) \o splitFirst(SubSeq(s, 2, Len(s)))

\* JavaScript truthiness of the values an isPremium field can hold, each
\* written as its source text
JsValues == {"true", "false", "undefined", "null", "0", "1", "'yes'", "''"}
Truthy(v) == v \in {"true", "1", "'yes'"}

(***************************************************************************)
(* The mood regex                                                          *)
(*  /^(?:my mood is|i feel|i am feeling|mood)[:\s]*([1-9]|10)(?:\/10)?$/i   *)
(***************************************************************************)
MoodLeadIns == {"my mood is", "i feel", "i am feeling", "mood"}
Digits == "123456789"

\* [:\s]*  (the number cannot start with a separator, so all of them go)
RECURSIVE skipSeparators(_)
skipSeparators(s) ==
    IF Len(s) > 0 /\ (CharAt(s, 1) = ":" \/ IsSpace(CharAt(s, 1)))
    THEN skipSeparators(SubSeq(s, 2, Len(s)))
    ELSE s

\* the group read without the anchor at the end: the first digit decides
moodNumberUnanchored(s) ==
    IF Len(s) > 0 /\ (\E d \in 1..9 : CharAt(Digits, d) = CharAt(s, 1))
    THEN CHOOSE d \in 1..9 : CharAt(Digits, d) = CharAt(s, 1)
    ELSE 0

\* ([1-9]|10)(?:\/10)?$ : the captured group as a number, 0 when no match
moodNumber(s) ==
    LET body == IF Len(s) >= 3 /\ SubSeq(s, Len(s) - 2, Len(s)) = "/10"
                THEN {s, SubSeq(s, 1, Len(s) - 3)} ELSE {s}
    IN  IF "10" \in body THEN 10
        ELSE IF \E d \in 1..9 : CharAt(Digits, d) \in body
             THEN CHOOSE d \in 1..9 : CharAt(Digits, d) \in body
             ELSE 0

\* parseInt(text.match(moodRegex)[1]), 0 when the match is null
moodMatch(text) ==
    LET low == Lower(text)
        leads == {p \in MoodLeadIns : startsWith(low, p)}
    IN  IF leads = {} THEN 0
        ELSE LET p == CHOOSE q \in leads : TRUE
             IN  moodNumber(skipSeparators(SubSeq(low, Len(p) + 1, Len(low))))

(***************************************************************************)
(* The conversation store                                                  *)
(***************************************************************************)
MAX_HISTORY_LENGTH == 10
PREMIUM_MAX_HISTORY_LENGTH == 50

Entry(role, content) == [role |-> role, content |-> content]

\* userData.get(id) of an id that was never set
NoUser ==
    [exists |-> FALSE, isPremium |-> "undefined", lastActivity |-> 0,
     hasMoodData |-> FALSE, moodData |-> <<>>]

\* { isPremium: false, lastActivity: Date.now() }
DefaultUser(t) ==
    [exists |-> TRUE, isPremium |-> "false", lastActivity |-> t,
     hasMoodData |-> FALSE, moodData |-> <<>>]

\* array.slice(0, n): the first n elements
sliceFirst(a, n) == IF Len(a) <= n THEN a ELSE SubSeq(a, 1, n)

\* array.slice(-n)
sliceLast(a, n) == IF Len(a) <= n THEN a ELSE SubSeq(a, Len(a) - n + 1, Len(a))

\* an allocation that hands out the first reference whether or not it is in use
FirstRef(inUse) == CHOOSE r \in Refs : \A q \in Refs : r <= q

\* `[]` and `[...a, ...b]`: a new array takes the lowest reference nothing holds
NewRef(inUse) == CHOOSE r \in Refs \ inUse : \A q \in Refs \ inUse : r <= q

ConversationRefs(conv) == {conv[u] : u \in Users} \ {0}

\* arrays nothing refers to any more are dropped
Collect(arr, conv, held) ==
    [r \in Refs |-> IF r \in ConversationRefs(conv) \cup held THEN arr[r] ELSE <<>>]

\* The store as one value, for the functions below
Store(conv, arr, ud) == [conversations |-> conv, arrays |-> arr, userData |-> ud]

EmptyStore ==
    Store([u \in Users |-> 0], [r \in Refs |-> <<>>], [u \in Users |-> NoUser])

\* a saveMoodData that records nothing
saveMoodDataLost(ud, t, userId, moodScore) == ud

\* a saveMoodData that records the score twice
saveMoodDataTwice(ud, t, userId, moodScore) ==
    LET user == IF ud[userId].exists THEN ud[userId]
                ELSE [DefaultUser(t) EXCEPT !.hasMoodData = TRUE]
        mood == IF user.hasMoodData THEN user.moodData ELSE <<>>
        entry == [score |-> moodScore, timestamp |-> t]
    IN  [ud EXCEPT ![userId] =
            [user EXCEPT !.hasMoodData = TRUE, !.moodData = mood \o <<entry, entry>>]]

saveMoodData(ud, t, userId, moodScore) ==
    LET user == IF ud[userId].exists THEN ud[userId]
                ELSE [DefaultUser(t) EXCEPT !.hasMoodData = TRUE]
        mood == IF user.hasMoodData THEN user.moodData ELSE <<>>
    IN  [ud EXCEPT ![userId] =
            [user EXCEPT !.hasMoodData = TRUE,
                         !.moodData = Append(mood, [score |-> moodScore, timestamp |-> t])]]

\* a saveConversation that never trims
UntrimmedHistory(history, maxLength) == history

\* a trim that keeps the oldest entries instead of the most recent
OldestHistory(history, maxLength) ==
    IF Len(history) > maxLength * 2 THEN SubSeq(history, 1, maxLength * 2) ELSE history

\* a trim that keeps one entry more than twice the capacity
TrimmedByOddCount(history, maxLength) ==
    IF Len(history) > maxLength * 2 THEN sliceLast(history, maxLength * 2 + 1) ELSE history

\* The trim of saveConversation: what conversations.set stores for `history`
TrimmedHistory(history, maxLength) ==
    IF Len(history) > maxLength * 2
    THEN LET systemMessage == IF history[1].role = "system" THEN <<history[1]>> ELSE <<>>
             recentMessages == sliceLast(history, maxLength * 2)
         IN  systemMessage \o recentMessages
    ELSE history

\* a capacity that ignores the premium flag
AlwaysFreeLength(user) == MAX_HISTORY_LENGTH

MaxLengthOf(user) ==
    IF Truthy(user.isPremium) THEN PREMIUM_MAX_HISTORY_LENGTH ELSE MAX_HISTORY_LENGTH

\* a saveConversation that starts from an empty array whatever is stored
saveConversationAfresh(S, held, t, userId, userMessage, botResponse) ==
    LET existing == S.conversations[userId]
        others == ConversationRefs(S.conversations) \ {existing}
        ref == IF existing # 0 THEN existing ELSE NewRef(held \cup others)
        history == <<Entry("user", userMessage), Entry("assistant", botResponse)>>
        moodScore == moodMatch(userMessage)
        ud1 == IF moodScore # 0 THEN saveMoodData(S.userData, t, userId, moodScore)
               ELSE S.userData
        user == [(IF ud1[userId].exists THEN ud1[userId] ELSE DefaultUser(t))
                    EXCEPT !.lastActivity = t]
        conv == [S.conversations EXCEPT ![userId] = ref]
    IN  Store(conv, Collect([S.arrays EXCEPT ![ref] = history], conv, held),
              [ud1 EXCEPT ![userId] = user])

\* saveConversation(userId, userMessage, botResponse) at time t; `held` are the
\* array references the handlers in flight still hold
saveConversation(S, held, t, userId, userMessage, botResponse) ==
    LET existing == S.conversations[userId]
        others == ConversationRefs(S.conversations) \ {existing}
        ref == IF existing # 0 THEN existing ELSE NewRef(held \cup others)
        history == (IF existing # 0 THEN S.arrays[ref] ELSE <<>>)
                       \o <<Entry("user", userMessage), Entry("assistant", botResponse)>>
        moodScore == moodMatch(userMessage)
        ud1 == IF moodScore # 0 THEN saveMoodData(S.userData, t, userId, moodScore)
               ELSE S.userData
        user == [(IF ud1[userId].exists THEN ud1[userId] ELSE DefaultUser(t))
                    EXCEPT !.lastActivity = t]
        maxLength == MaxLengthOf(user)
        kept == TrimmedHistory(history, maxLength)
        stored == IF Len(history) > maxLength * 2 THEN NewRef(held \cup others) ELSE ref
        conv == [S.conversations EXCEPT ![userId] = stored]
        \* the pushes went into `history` in place; a trim stores a new array
        arr == [[S.arrays EXCEPT ![ref] = history] EXCEPT ![stored] = kept]
    IN  Store(conv, Collect(arr, conv, held), [ud1 EXCEPT ![userId] = user])

getMoodHistory(S, userId) ==
    IF S.userData[userId].exists /\ S.userData[userId].hasMoodData
    THEN S.userData[userId].moodData ELSE <<>>

\* a setPremiumStatus that stores a fresh user record
setPremiumStatusAfresh(S, t, userId, isPremium) ==
    [S EXCEPT !.userData[userId] = [DefaultUser(t) EXCEPT !.isPremium = isPremium]]

setPremiumStatus(S, t, userId, isPremium) ==
    LET user == IF S.userData[userId].exists THEN S.userData[userId] ELSE DefaultUser(t)
    IN  [S EXCEPT !.userData[userId] = [user EXCEPT !.isPremium = isPremium]]

isPremiumUser(S, userId) ==
    IF S.userData[userId].exists THEN S.userData[userId].isPremium ELSE "false"

\* the array getConversationHistory returns, as a value
getConversationHistory(S, userId) ==
    IF S.conversations[userId] # 0 THEN S.arrays[S.conversations[userId]] ELSE <<>>

\* a clear that deletes nothing
clearNothing(S, held, userId) == S

clearConversationHistory(S, held, userId) ==
    LET conv == [S.conversations EXCEPT ![userId] = 0]
    IN  [S EXCEPT !.conversations = conv, !.arrays = Collect(S.arrays, conv, held)]

\* The store of the current state
Current == Store(conversations, arrays, userData)
History(u) == getConversationHistory(Current, u)
HeldRefs(rq) == {rq[h].hist : h \in Handlers} \ {0}

(***************************************************************************)
(* A handler slot: one inbound message being handled                        *)
(***************************************************************************)
NoAdminCall == [apiKey |-> "", status |-> 0, userId |-> "", configured |-> "admin-key"]

\* no session client is watched
NoClient ==
    [reconnectAttempts |-> 0, isDisconnected |-> FALSE,
     browser |-> FALSE,        \* the browser reference was acquired
     isConnected |-> FALSE,    \* what browser.isConnected() answers
     initializing |-> FALSE,   \* client.initialize() is under way
     timers |-> 0,             \* reconnection timeouts of the 'disconnected' handler pending
     destroying |-> 0,         \* watchdog runs between client.destroy() and client.initialize()
     started |-> 0,            \* reinitializations started since the last 'ready'
     startedAt |-> 0]          \* reconnectAttempts when the latest reinitialization started

\* no call of retryOperation on its own is under way
NoRetry == [pc |-> "idle", maxRetries |-> 0, baseDelay |-> 0, retries |-> 0, waits |-> <<>>]

IdleReq ==
    [pc |-> "idle",        \* idle, calling, backoff, sending, done
     id |-> 0,             \* the message's number in order of receipt
     from |-> "", body |-> "",
     path |-> "",          \* message, or the command handleCommand dispatched to
     hist |-> 0,           \* conversationHistory: the array the handler holds
     prompt |-> "",        \* the text handed to processMessage
     userMessage |-> "",   \* the user turn processMessage sent to the provider
     messages |-> <<>>,    \* the message list of the latest call to the provider
     op |-> "",            \* what retryOperation is retrying: complete or send
     retries |-> 0, maxRetries |-> 0,
     response |-> "",      \* the completion, once a call succeeded
     sending |-> "",       \* the text of the send in progress
     inCatch |-> FALSE,    \* the handler is in its catch block
     status |-> 0,         \* webhook: the HTTP status returned
     unhandled |-> FALSE,  \* an error left the handler
     arrivedAt |-> 0, savedAt |-> 0,
     attempts |-> 0,       \* completion calls made
     offered |-> <<>>,     \* texts handed to the transport, in order
     outbox |-> <<>>]      \* texts the transport delivered, in order

(***************************************************************************)
(* The mood reports of a user, saved by direct calls of saveMoodData        *)
(***************************************************************************)
MaxMoods == 11
MoodMsgs == 1

\* the scores a caller reports next: first any score, then each report three
\* above the last (wrapping past ten), so that a log of ten holds every score
NextScores(moodData) ==
    IF moodData = <<>> THEN 1..10
    ELSE {((moodData[Len(moodData)].score + 2) % 10) + 1}

(***************************************************************************)
(* The store's exported functions, called directly                          *)
(***************************************************************************)
Exchange(userMessage, botResponse) == <<userMessage, botResponse>>

\* the effect of one saveConversation call, made at time t, on the state
StoreSave(t, userId, userMessage, botResponse, held) ==
    LET S == saveConversation(Current, held, t, userId, userMessage, botResponse)
    IN  /\ conversations' = S.conversations
        /\ arrays' = S.arrays
        /\ userData' = S.userData
        /\ saved' = [saved EXCEPT ![userId] = Append(@, Exchange(userMessage, botResponse))]
        /\ UNCHANGED <<upgraded, dropped>>

StoreClear(userId, held) ==
    LET S == clearConversationHistory(Current, held, userId)
    IN  /\ conversations' = S.conversations
        /\ arrays' = S.arrays
        /\ userData' = S.userData
        /\ saved' = [saved EXCEPT ![userId] = <<>>]
        /\ upgraded' = [upgraded EXCEPT ![userId] = Truthy(isPremiumUser(Current, userId))]
        /\ dropped' = [dropped EXCEPT ![userId] = Len(History(userId))]

StoreSetPremium(userId, isPremium) ==
    LET S == setPremiumStatus(Current, now, userId, isPremium)
    IN  /\ conversations' = S.conversations
        /\ arrays' = S.arrays
        /\ userData' = S.userData
        /\ upgraded' = [upgraded EXCEPT ![userId] = @ \/ Truthy(isPremium)]
        /\ UNCHANGED <<saved, dropped>>

\* a step that calls nothing of the store; a handler that let go of its array
\* frees it
StoreSame(held) ==
    /\ arrays' = Collect(arrays, conversations, held)
    /\ UNCHANGED <<conversations, userData, saved, upgraded, dropped>>

WarmingUp == \E u \in Users : warmup[u] # <<>>

\* the texts and replies the direct calls pass
CallTexts == {"hello", "My mood is 7/10"}
BotReply(n) == "reply " \o ToString(n)

CallSaveConversation ==
    /\ ~WarmingUp
    /\ calls < MaxCalls
    /\ \E userId \in Users, userMessage \in CallTexts :
          StoreSave(now + 1, userId, userMessage, BotReply(now + 1), {})
    /\ now' = now + 1
    /\ calls' = calls + 1
    /\ UNCHANGED <<variant, req, received, faults, warmup, admin, retry, client>>

CallClearConversationHistory ==
    /\ ~WarmingUp
    /\ \E userId \in Users : StoreClear(userId, {})
    /\ UNCHANGED <<variant, now, req, received, calls, faults, warmup, admin, retry, client>>

CallSetPremiumStatus ==
    /\ ~WarmingUp
    /\ \E userId \in Users, isPremium \in {"true", "false"} :
          StoreSetPremium(userId, isPremium)
    /\ UNCHANGED <<variant, now, req, received, calls, faults, warmup, admin, retry, client>>

(***************************************************************************)
(* The store specification: a process that starts with an empty store,     *)
(* first runs one warm-up script per user (a fixed run of calls, user by    *)
(* user), and then calls the exported functions freely                      *)
(***************************************************************************)
Saves(n) == [op |-> "save", n |-> n]
Upgrade == [op |-> "upgrade", n |-> 1]

Scripts ==
    { <<>>,
      <<Saves(MAX_HISTORY_LENGTH - 1)>>,
      <<Saves(PREMIUM_MAX_HISTORY_LENGTH - 1)>>,
      <<Saves(MAX_HISTORY_LENGTH - 1), Upgrade,
        Saves(PREMIUM_MAX_HISTORY_LENGTH - MAX_HISTORY_LENGTH)>> }

UserOrder == <<"u1", "u2">>

WarmUp ==
    /\ WarmingUp
    /\ LET i == CHOOSE j \in 1..Len(UserOrder) :
                    /\ warmup[UserOrder[j]] # <<>>
                    /\ \A k \in 1..(j - 1) : warmup[UserOrder[k]] = <<>>
           userId == UserOrder[i]
           step == Head(warmup[userId])
       IN  /\ IF step.op = "save"
              THEN StoreSave(now + 1, userId, "hello", BotReply(now + 1), {}) /\ now' = now + 1
              ELSE StoreSetPremium(userId, "true") /\ now' = now
           /\ warmup' = [warmup EXCEPT ![userId] =
                            IF step.n > 1 THEN <<[step EXCEPT !.n = @ - 1]>> \o Tail(@)
                            ELSE Tail(@)]
    /\ UNCHANGED <<variant, req, received, calls, faults, admin, retry, client>>

InitStore ==
    /\ conversations = EmptyStore.conversations
    /\ arrays = EmptyStore.arrays
    /\ userData = EmptyStore.userData
    /\ now = 0
    /\ saved = [u \in Users |-> <<>>]
    /\ upgraded = [u \in Users |-> FALSE]
    /\ dropped = [u \in Users |-> 0]
    /\ warmup \in [Users -> Scripts]
    /\ admin = NoAdminCall
    /\ retry = NoRetry
    /\ client = NoClient
    /\ variant = "webhook"
    /\ req = [h \in Handlers |-> IdleReq]
    /\ received = 0
    /\ calls = 0
    /\ faults = 0

NextStore ==
    \/ WarmUp
    \/ CallSaveConversation
    \/ CallClearConversationHistory
    \/ CallSetPremiumStatus

SpecStore == InitStore /\ [][NextStore]_vars

(***************************************************************************)
(* The completion gateway: processMessage                                   *)
(***************************************************************************)
\* the user turn processMessage puts last in the message list
UserTurn(message) ==
    LET low == Lower(message)
        moodScore == moodMatch(message)
        m1 == IF moodScore # 0
              THEN "[MOOD TRACKING] User reported mood score: " \o ToString(moodScore)
                       \o "/10. Original message: \"" \o message \o "\""
              ELSE message
        m2 == IF includes(low, "coping exercise") \/ includes(low, "help me cope")
              THEN "[COPING EXERCISE REQUEST] " \o message ELSE m1
    IN  IF includes(low, "affirmation") \/ includes(low, "positive thought")
        THEN "[AFFIRMATION REQUEST] " \o message ELSE m2

\* the system prompt, by its name
SYSTEM_PROMPT == "SYSTEM_PROMPT"

\* a message list without the system instruction
MessageListBare(message, conversationHistory) ==
    conversationHistory \o <<Entry("user", UserTurn(message))>>

\* the `messages` processMessage passes to client.chat.completions.create
MessageList(message, conversationHistory) ==
    <<Entry("system", SYSTEM_PROMPT)>>
        \o [i \in 1..Len(conversationHistory) |->
               Entry(conversationHistory[i].role, conversationHistory[i].content)]
        \o <<Entry("user", UserTurn(message))>>

\* the array a handler holds as conversationHistory, as it is now
HeldHistory(r) == IF r.hist = 0 THEN <<>> ELSE arrays[r.hist]

\* what the provider answers to the n-th call made for message id
ProviderOutput(id, n) == "completion " \o ToString(id) \o "." \o ToString(n)

(***************************************************************************)
(* The texts a message can carry: direct calls of processMessage and of     *)
(* saveConversation with them                                               *)
(***************************************************************************)
MoodWords == {"My mood is", "my mood is", "mood", "I FEEL", "my mood"}
Separators == {" ", ": "}
Numerals ==
    {[text |-> "0", value |-> 0], [text |-> "1", value |-> 1],
     [text |-> "9", value |-> 9], [text |-> "10", value |-> 10],
     [text |-> "11", value |-> 11]}
Suffixes == {"", "/10"}

MoodText(word, sep, numeral, suffix) == word \o sep \o numeral.text \o suffix

MoodTexts ==
    {MoodText(w, s, n, x) : w \in MoodWords, s \in Separators, n \in Numerals, x \in Suffixes}

PhraseTexts ==
    {"I need a coping exercise", "Help me cope", "Give me an affirmation",
     "a Positive Thought please", "a coping exercise or an affirmation?",
     "help me cope with a positive thought", "hello"}

Texts == MoodTexts \cup PhraseTexts

\* processMessage(message) is called: the user turn it builds
CallProcessMessage ==
    /\ calls < MaxCalls
    /\ calls' = calls + 1
    /\ \E message \in Texts :
          req' = [req EXCEPT ![1] = [IdleReq EXCEPT !.prompt = message,
                                                    !.userMessage = UserTurn(message),
                                                    !.messages = MessageList(message, <<>>)]]
    /\ StoreSame({})
    /\ UNCHANGED <<variant, now, received, faults, warmup, admin, retry, client>>

\* saveConversation(userId, message, reply) is called
CallSaveMessage ==
    /\ calls < MaxCalls
    /\ calls' = calls + 1
    /\ \E userId \in Users, message \in Texts :
          StoreSave(now + 1, userId, message, BotReply(now + 1), {})
    /\ now' = now + 1
    /\ UNCHANGED <<variant, req, received, faults, warmup, admin, retry, client>>

InitText ==
    /\ variant = "webhook"
    /\ now = 0
    /\ conversations = EmptyStore.conversations
    /\ arrays = EmptyStore.arrays
    /\ userData = EmptyStore.userData
    /\ req = [h \in Handlers |-> IdleReq]
    /\ received = 0
    /\ calls = 0
    /\ faults = 0
    /\ saved = [u \in Users |-> <<>>]
    /\ upgraded = [u \in Users |-> FALSE]
    /\ dropped = [u \in Users |-> 0]
    /\ warmup = [u \in Users |-> <<>>]
    /\ admin = NoAdminCall
    /\ retry = NoRetry
    /\ client = NoClient

NextText == CallProcessMessage \/ CallSaveMessage

SpecText == InitText /\ [][NextText]_vars

(***************************************************************************)
(* The texts of the transport variants                                      *)
(***************************************************************************)
COMMANDS ==
    [HELP |-> "/help", UPGRADE |-> "/upgrade", MOOD_HISTORY |-> "/mood",
     CLEAR |-> "/clear", EXERCISE |-> "/exercise", AFFIRMATION |-> "/affirmation"]

Webhook == variant = "webhook"

HelpMessage == IF Webhook THEN "*MindfulHelper Commands*" ELSE "*Available Commands:*"

AlreadyPremium ==
    IF Webhook THEN "You're already a premium user!"
    ELSE "You're already a premium user! Thank you for your support."

UpgradePitch == IF Webhook THEN "*Upgrade to Premium*" ELSE "*Upgrade to Premium Features*"

NoMoodData ==
    IF Webhook
    THEN "You haven't shared any mood data yet. You can track your mood by telling me 'My mood is [1-10]' anytime."
    ELSE "You haven't recorded any mood data yet. Try saying 'My mood is 7/10' to start tracking!"

ClearMessage ==
    IF Webhook THEN "Your conversation history has been cleared. We're starting fresh!"
    ELSE "Your conversation history has been cleared. I'm still here if you need to talk!"

UnknownCommandMessage ==
    IF Webhook THEN "I don't recognize that command. Type /help for a list of available commands."
    ELSE "I don't recognize that command. Type " \o COMMANDS.HELP \o " to see available commands."

CommandErrorMessage ==
    "I encountered an error while processing your command. Please try again later."

Apology ==
    IF Webhook
    THEN "I apologize, but I encountered an error while processing your message. Please try again later."
    ELSE "I'm sorry, I'm having trouble processing your message right now. Please try again later."

ExercisePrompt == IF Webhook THEN WebhookExercisePrompt ELSE ClientExercisePrompt

AffirmationPrompt == IF Webhook THEN WebhookAffirmationPrompt ELSE ClientAffirmationPrompt

UpsellNote ==
    "\n\n_Upgrade to premium to see your complete mood history and detailed analysis!_"

(***************************************************************************)
(* /mood                                                                    *)
(***************************************************************************)
\* a getMoodEmoji whose thresholds are strict
getMoodEmojiStrict(score) ==
    IF score > 9 THEN "(joyful)"
    ELSE IF score > 7 THEN "(happy)"
    ELSE IF score > 5 THEN "(neutral)"
    ELSE IF score > 3 THEN "(sad)"
    ELSE "(very sad)"

getMoodEmoji(score) ==
    IF score >= 9 THEN "(joyful)"
    ELSE IF score >= 7 THEN "(happy)"
    ELSE IF score >= 5 THEN "(neutral)"
    ELSE IF score >= 3 THEN "(sad)"
    ELSE "(very sad)"

\* the clock ticks that make a day
TicksPerDay == 4

\* the date of a timestamp: many timestamps share one date
DateText(timestamp) == "day " \o ToString(timestamp \div TicksPerDay)

\* [...moodData].sort((a, b) => a.timestamp - b.timestamp): a stable sort
RECURSIVE insertByTimestamp(_, _)
insertByTimestamp(sorted, e) ==
    IF sorted = <<>> THEN <<e>>
    ELSE IF sorted[Len(sorted)].timestamp <= e.timestamp THEN Append(sorted, e)
    ELSE Append(insertByTimestamp(SubSeq(sorted, 1, Len(sorted) - 1), e), sorted[Len(sorted)])

RECURSIVE sortByTimestamp(_)
sortByTimestamp(moodData) ==
    IF moodData = <<>> THEN <<>>
    ELSE insertByTimestamp(sortByTimestamp(SubSeq(moodData, 1, Len(moodData) - 1)),
                           moodData[Len(moodData)])

RECURSIVE sumScores(_)
sumScores(entries) ==
    IF entries = <<>> THEN 0 ELSE Head(entries).score + sumScores(Tail(entries))

\* (sum / n).toFixed(1)
toFixed1(sum, n) ==
    LET tenths == (20 * sum + n) \div (2 * n)
    IN  ToString(tenths \div 10) \o "." \o ToString(tenths % 10)

WebhookShown == 10
SessionShown == 7

RECURSIVE webhookMoodLines(_)
webhookMoodLines(entries) ==
    IF entries = <<>> THEN ""
    ELSE DateText(Head(entries).timestamp) \o ": " \o ToString(Head(entries).score)
            \o "/10 " \o getMoodEmoji(Head(entries).score) \o "\n"
            \o webhookMoodLines(Tail(entries))

RECURSIVE sessionMoodLines(_)
sessionMoodLines(entries) ==
    IF entries = <<>> THEN ""
    ELSE DateText(Head(entries).timestamp) \o ": " \o ToString(Head(entries).score)
            \o "/10\n" \o sessionMoodLines(Tail(entries))

\* the text sendMoodHistory produces
sendMoodHistory(S, userId) ==
    LET moodData == getMoodHistory(S, userId)
    IN  IF moodData = <<>> THEN NoMoodData
        ELSE IF Webhook
        THEN "*Your Mood History*\n\n"
                \o webhookMoodLines(sliceLast(sortByTimestamp(moodData), WebhookShown))
        ELSE LET recentMoods == sliceLast(moodData, SessionShown)
             IN  "*Your Mood History*\n\n" \o sessionMoodLines(recentMoods)
                    \o "\nAverage mood: "
                    \o toFixed1(sumScores(recentMoods), Len(recentMoods)) \o "/10"
                    \o (IF ~Truthy(isPremiumUser(S, userId)) /\ Len(moodData) > SessionShown
                        THEN UpsellNote ELSE "")

sendUpgradeInfo(S, userId) ==
    IF Truthy(isPremiumUser(S, userId)) THEN AlreadyPremium ELSE UpgradePitch

(***************************************************************************)
(* handleCommand: which branch a command text takes                         *)
(***************************************************************************)
\* webhook variant: the first command name the trimmed, lower-cased text starts with
DispatchByPrefix(messageBody) ==
    LET command == toLowerCase(trim(messageBody))
    IN  IF startsWith(command, COMMANDS.HELP) THEN "help"
        ELSE IF startsWith(command, COMMANDS.UPGRADE) THEN "upgrade"
        ELSE IF startsWith(command, COMMANDS.MOOD_HISTORY) THEN "mood"
        ELSE IF startsWith(command, COMMANDS.CLEAR) THEN "clear"
        ELSE IF startsWith(command, COMMANDS.EXERCISE) THEN "exercise"
        ELSE IF startsWith(command, COMMANDS.AFFIRMATION) THEN "affirmation"
        ELSE "unknown"

\* session-client and simple variants: a switch on the lower-cased first token
DispatchByToken(messageBody) ==
    LET command == toLowerCase(splitFirst(messageBody))
    IN  IF command = COMMANDS.HELP THEN "help"
        ELSE IF command = COMMANDS.UPGRADE THEN "upgrade"
        ELSE IF command = COMMANDS.MOOD_HISTORY THEN "mood"
        ELSE IF command = COMMANDS.CLEAR THEN "clear"
        ELSE IF command = COMMANDS.EXERCISE THEN "exercise"
        ELSE IF command = COMMANDS.AFFIRMATION THEN "affirmation"
        ELSE "unknown"

Dispatch(messageBody) ==
    IF Webhook THEN DispatchByPrefix(messageBody) ELSE DispatchByToken(messageBody)

\* a dispatcher whose every quiet branch answers with the help text
CommandReplyHelp(S, path, userId) == HelpMessage

\* the reply of the commands that call neither the provider nor clear
CommandReply(S, path, userId) ==
    IF path = "help" THEN HelpMessage
    ELSE IF path = "upgrade" THEN sendUpgradeInfo(S, userId)
    ELSE IF path = "mood" THEN sendMoodHistory(S, userId)
    ELSE UnknownCommandMessage

(***************************************************************************)
(* The inbound-message handler, one atomic step per stretch between two     *)
(* awaits of external I/O (the provider call, a timer, a send)              *)
(***************************************************************************)
MaxAttempts == 3
ReplySendTries == 3
ApologySendTries == 2

\* the handler returns: its locals are gone
Finish(r) ==
    [r EXCEPT !.pc = "done", !.hist = 0, !.prompt = "", !.userMessage = "", !.op = "",
              !.messages = <<>>, !.retries = 0, !.maxRetries = 0, !.sending = ""]

\* a webhook that answers 200 with an empty TwiML document
RespondSilent(r, text, tries) ==
    IF Webhook
    THEN Finish([r EXCEPT !.status = 200])
    ELSE [r EXCEPT !.pc = "sending", !.hist = 0, !.op = "send", !.sending = text,
                   !.messages = <<>>, !.retries = 0, !.maxRetries = tries,
                   !.offered = Append(@, text)]

\* the text goes to the user: twiml.message and the 200 response (webhook),
\* or client.sendMessage, tried `tries` times (session client, simple)
Respond(r, text, tries) ==
    IF Webhook
    THEN Finish([r EXCEPT !.status = 200,
                          !.offered = Append(@, text), !.outbox = Append(@, text)])
    ELSE [r EXCEPT !.pc = "sending", !.hist = 0, !.op = "send", !.sending = text,
                   !.messages = <<>>, !.retries = 0, !.maxRetries = tries,
                   !.offered = Append(@, text)]

\* a gateway call that tells the provider which users are premium
CallProviderByPlan(r) ==
    [r EXCEPT !.pc = "calling", !.op = "complete", !.attempts = @ + 1,
              !.userMessage = UserTurn(r.prompt),
              !.messages = MessageList(IF Truthy(userData[r.from].isPremium)
                                       THEN "[PREMIUM] " \o r.prompt ELSE r.prompt,
                                       HeldHistory(r))]

\* a gateway that calls the provider twice per attempt
CallProviderTwice(r) ==
    [r EXCEPT !.pc = "calling", !.op = "complete", !.attempts = @ + 2,
              !.userMessage = UserTurn(r.prompt)]

\* processMessage(prompt, conversationHistory) up to its await of the provider
CallProvider(r) ==
    [r EXCEPT !.pc = "calling", !.op = "complete", !.attempts = @ + 1,
              !.userMessage = UserTurn(r.prompt),
              !.messages = MessageList(r.prompt, HeldHistory(r))]

\* a catch block that answers with the help text
CatchWithHelp(r) == Respond(r, HelpMessage, 1)

\* an error reaches the catch block of the handler (or of handleCommand, webhook)
Catch(r) ==
    IF Webhook
    THEN Respond(r, IF r.path = "message" THEN Apology ELSE CommandErrorMessage, 1)
    ELSE IF r.inCatch
    THEN Finish([r EXCEPT !.unhandled = (variant = "simple")])
    ELSE Respond([r EXCEPT !.inCatch = TRUE], Apology,
                 IF variant = "session" THEN ApologySendTries ELSE 1)

Inbox == FreeformTexts \cup CommandTexts

\* the users are interchangeable: the first sender is called u1
FirstUsers(n) == IF n = 0 THEN {UserOrder[1]} ELSE Users

\* a field the payload lacks (undefined or empty: both are falsy)
Missing == ""

\* req.body.Body and req.body.From of the webhook can be missing; the messages
\* of the whatsapp-web.js client carry both
Bodies == IF Webhook THEN Inbox \cup {Missing} ELSE Inbox
Senders(n) == IF Webhook THEN FirstUsers(n) \cup {Missing} ELSE FirstUsers(n)

\* a validation that answers the sender with the apology
RejectWithApology(r) == Respond(r, Apology, 1)

\* res.status(400).send('Bad Request: Missing message parameters')
Reject(r) == Finish([r EXCEPT !.path = "", !.status = 400])

\* a message arrives; it is handled in the lowest slot that is free
Receive(h) ==
    /\ req[h].pc \in {"idle", "done"}
    /\ \A g \in Handlers : g < h => req[g].pc \notin {"idle", "done"}
    /\ received < MaxMsgs
    /\ \E from \in Senders(received), body \in Bodies :
          LET path == IF startsWith(body, "/") THEN Dispatch(body) ELSE "message"
              r == [IdleReq EXCEPT !.id = received + 1, !.from = from, !.body = body,
                                   !.path = path, !.arrivedAt = received + 1]
              asks == path \in {"message", "exercise", "affirmation"}
              next ==
                  IF Webhook /\ (body = Missing \/ from = Missing)
                  THEN Reject(r)
                  ELSE IF path = "message"
                  THEN CallProvider([r EXCEPT !.hist = conversations[from], !.prompt = body,
                                              !.maxRetries = IF variant = "simple" THEN 1
                                                             ELSE MaxAttempts])
                  ELSE IF path = "exercise"
                  THEN CallProvider([r EXCEPT !.hist = conversations[from],
                                              !.prompt = ExercisePrompt, !.maxRetries = 1])
                  ELSE IF path = "affirmation"
                  THEN CallProvider([r EXCEPT !.hist = conversations[from],
                                              !.prompt = AffirmationPrompt, !.maxRetries = 1])
                  ELSE IF path = "clear"
                  THEN Respond(r, ClearMessage, 1)
                  ELSE Respond(r, CommandReply(Current, path, from), 1)
          IN  /\ req' = [req EXCEPT ![h] = next]
              /\ IF path = "clear" /\ next.status # 400
                 THEN StoreClear(from, HeldRefs(req'))
                 ELSE StoreSame(HeldRefs(req'))
    /\ received' = received + 1
    /\ UNCHANGED <<variant, now, calls, faults, warmup, admin, retry, client>>

\* a handler that saves the user turn it sent to the provider
StoredTextSent(r) == r.userMessage

\* the user text a handler passes to saveConversation: the text received, or
\* the prompt handleExerciseRequest and handleAffirmationRequest made up
\* (session client, simple)
StoredText(r) == IF r.path = "message" \/ Webhook THEN r.body ELSE r.prompt

\* the provider answers: the completion is saved and sent
ProviderSucceeds(h) ==
    /\ req[h].pc = "calling"
    /\ LET r == req[h]
           response == ProviderOutput(r.id, r.attempts)
           stored == StoredText(r)
           next == Respond([r EXCEPT !.response = response, !.savedAt = now + 1], response,
                           IF variant = "session" /\ r.path = "message"
                           THEN ReplySendTries ELSE 1)
       IN  /\ req' = [req EXCEPT ![h] = next]
           /\ StoreSave(now + 1, r.from, stored, response, HeldRefs(req'))
    /\ now' = now + 1
    /\ UNCHANGED <<variant, received, calls, faults, warmup, admin, retry, client>>

\* a retryOperation that never gives up
FailedAgain(r) == [r EXCEPT !.retries = @ + 1, !.pc = "backoff"]

\* retryOperation's catch: count, give up at maxRetries, else wait
Failed(r) ==
    IF r.retries + 1 >= r.maxRetries
    THEN Catch([r EXCEPT !.retries = @ + 1])
    ELSE [r EXCEPT !.retries = @ + 1, !.pc = "backoff"]

\* the provider call fails (an error, or a payload without choices)
ProviderFails(h) ==
    /\ req[h].pc = "calling"
    /\ req' = [req EXCEPT ![h] = Failed(req[h])]
    /\ StoreSame(HeldRefs(req'))
    /\ faults < MaxFaults
    /\ faults' = faults + 1
    /\ UNCHANGED <<variant, now, received, calls, warmup, admin, retry, client>>

\* the backoff timer of retryOperation fires: the operation runs again
TimerFires(h) ==
    /\ req[h].pc = "backoff"
    /\ req' = [req EXCEPT ![h] = IF req[h].op = "complete" THEN CallProvider(req[h])
                                 ELSE [req[h] EXCEPT !.pc = "sending"]]
    /\ StoreSame(HeldRefs(req'))
    /\ UNCHANGED <<variant, now, received, calls, faults, warmup, admin, retry, client>>

SendSucceeds(h) ==
    /\ req[h].pc = "sending"
    /\ req' = [req EXCEPT ![h] = Finish([req[h] EXCEPT !.outbox = Append(@, req[h].sending)])]
    /\ StoreSame(HeldRefs(req'))
    /\ UNCHANGED <<variant, now, received, calls, faults, warmup, admin, retry, client>>

SendFails(h) ==
    /\ req[h].pc = "sending"
    /\ req' = [req EXCEPT ![h] = Failed(req[h])]
    /\ StoreSame(HeldRefs(req'))
    /\ faults < MaxFaults
    /\ faults' = faults + 1
    /\ UNCHANGED <<variant, now, received, calls, warmup, admin, retry, client>>

(***************************************************************************)
(* The mood specification: one user reports moods and asks for /mood        *)
(***************************************************************************)
CallSaveMoodData ==
    /\ LET userId == UserOrder[1]
           moodData == getMoodHistory(Current, userId)
       IN  /\ Len(moodData) < MaxMoods
           /\ \E moodScore \in NextScores(moodData) :
                 userData' = saveMoodData(userData, now + 1, userId, moodScore)
    /\ now' = now + 1
    /\ UNCHANGED <<variant, conversations, arrays, req, received, calls, saved, upgraded,
                   dropped, faults, warmup, admin, retry, client>>

\* setPremiumStatus called for the user who reports
CallSetPremiumOfFirst ==
    /\ CallSetPremiumStatus
    /\ \A u \in Users \ {UserOrder[1]} : userData'[u] = userData[u]

\* the user sends /mood
ReceiveMood(h) ==
    /\ received < MoodMsgs
    /\ Receive(h)
    /\ req'[h].body = COMMANDS.MOOD_HISTORY

\* the value of a field or of an environment variable that is not there
Undefined == "undefined"

\* the admin key of a configured server, and the keys a caller presents
ADMIN_API_KEY == "admin-key"
PresentedKeys == {ADMIN_API_KEY, "wrong-key"}

\* a check of the key that lets every caller in
AuthorizedAlways(apiKey) == TRUE

\* apiKey !== process.env.ADMIN_API_KEY does not hold
Authorized(apiKey) == apiKey = admin.configured

\* the value the endpoint hands to setPremiumStatus: isPremium as received
\* (webhook), or isPremium === true
StoredPremium(isPremium) ==
    IF Webhook THEN isPremium ELSE IF isPremium = "true" THEN "true" ELSE "false"

\* the set-premium endpoint, for a request whose key is one of `keys` and whose
\* isPremium is one of `values`
SetPremiumRequest(keys, values) ==
    \E apiKey \in keys :
        IF ~Authorized(apiKey)
        THEN /\ admin' = [admin EXCEPT !.apiKey = apiKey, !.status = 401, !.userId = ""]
             /\ StoreSame(HeldRefs(req))
        ELSE \E userId \in Users, isPremium \in values :
                /\ admin' = [admin EXCEPT !.apiKey = apiKey, !.status = 200, !.userId = userId]
                /\ StoreSetPremium(userId, StoredPremium(isPremium))

\* the administrative set-premium call
AdminSetPremium ==
    /\ calls < MaxAdmin
    /\ calls' = calls + 1
    /\ SetPremiumRequest(PresentedKeys, {"true", "false"})
    /\ UNCHANGED <<variant, now, req, received, faults, warmup, retry, client>>

(***************************************************************************)
(* The administrative specification: servers with and without a configured *)
(* admin key take set-premium requests with any key, or none, and any       *)
(* isPremium value                                                          *)
(***************************************************************************)
MaxRequests == 2

AdminRequest ==
    /\ calls < MaxRequests
    /\ calls' = calls + 1
    /\ SetPremiumRequest(PresentedKeys \cup {Undefined}, JsValues)
    /\ UNCHANGED <<variant, now, req, received, faults, warmup, retry, client>>

InitAdmin ==
    /\ variant \in Variants
    /\ now = 0
    /\ conversations = EmptyStore.conversations
    /\ arrays = EmptyStore.arrays
    /\ userData = EmptyStore.userData
    /\ req = [h \in Handlers |-> IdleReq]
    /\ received = 0
    /\ calls = 0
    /\ faults = 0
    /\ saved = [u \in Users |-> <<>>]
    /\ upgraded = [u \in Users |-> FALSE]
    /\ dropped = [u \in Users |-> 0]
    /\ warmup = [u \in Users |-> <<>>]
    /\ admin \in {[NoAdminCall EXCEPT !.configured = k] : k \in {ADMIN_API_KEY, Undefined}}
    /\ retry = NoRetry
    /\ client = NoClient

NextAdmin == AdminRequest

SpecAdmin == InitAdmin /\ [][NextAdmin]_vars

Init ==
    /\ variant \in Variants
    /\ now = 0
    /\ conversations = EmptyStore.conversations
    /\ arrays = EmptyStore.arrays
    /\ userData = EmptyStore.userData
    /\ req = [h \in Handlers |-> IdleReq]
    /\ received = 0
    /\ calls = 0
    /\ faults = 0
    /\ saved = [u \in Users |-> <<>>]
    /\ upgraded = [u \in Users |-> FALSE]
    /\ dropped = [u \in Users |-> 0]
    /\ warmup = [u \in Users |-> <<>>]
    /\ admin = NoAdminCall
    /\ retry = NoRetry
    /\ client = NoClient

Next ==
    \/ \E h \in Handlers :
          \/ Receive(h)
          \/ ProviderSucceeds(h)
          \/ ProviderFails(h)
          \/ TimerFires(h)
          \/ SendSucceeds(h)
          \/ SendFails(h)
    \/ AdminSetPremium

Spec == Init /\ [][Next]_vars

NextMood ==
    \/ CallSaveMoodData
    \/ CallSetPremiumOfFirst
    \/ \E h \in Handlers :
          \/ ReceiveMood(h)
          \/ TimerFires(h)
          \/ SendSucceeds(h)
          \/ SendFails(h)

SpecMood == Init /\ [][NextMood]_vars

(***************************************************************************)
(* The handlers serving a user who already has a stored exchange            *)
(***************************************************************************)
\* the store after the first user's first exchange was saved, at time 1
AfterFirstExchange ==
    saveConversation(EmptyStore, {}, 1, UserOrder[1], "hello", BotReply(1))

InitReturning ==
    /\ variant \in Variants
    /\ now = 1
    /\ conversations = AfterFirstExchange.conversations
    /\ arrays = AfterFirstExchange.arrays
    /\ userData = AfterFirstExchange.userData
    /\ req = [h \in Handlers |-> IdleReq]
    /\ received = 0
    /\ calls = 0
    /\ faults = 0
    /\ saved = [u \in Users |-> IF u = UserOrder[1] THEN <<Exchange("hello", BotReply(1))>>
                                 ELSE <<>>]
    /\ upgraded = [u \in Users |-> FALSE]
    /\ dropped = [u \in Users |-> 0]
    /\ warmup = [u \in Users |-> <<>>]
    /\ admin = NoAdminCall
    /\ retry = NoRetry
    /\ client = NoClient

NextReturning ==
    \E h \in Handlers :
        \/ Receive(h)
        \/ ProviderSucceeds(h)
        \/ ProviderFails(h)
        \/ TimerFires(h)
        \/ SendSucceeds(h)
        \/ SendFails(h)

SpecReturning == InitReturning /\ [][NextReturning]_vars

(***************************************************************************)
(* The session client: 'ready', 'disconnected' and the browser watchdog     *)
(***************************************************************************)
MAX_RECONNECT_ATTEMPTS == 3
MaxReconnects == 5
MaxPending == 3

\* nothing but the client changes
ClientOnly ==
    UNCHANGED <<variant, now, conversations, arrays, userData, req, received, calls, saved,
                upgraded, dropped, faults, warmup, admin, retry>>

\* client.on('ready'): the counter is reset; the browser reference is acquired,
\* or the attempt to get it fails and the old one stays
Ready ==
    /\ client.initializing
    /\ \E acquired \in BOOLEAN :
          client' = [client EXCEPT !.reconnectAttempts = 0, !.initializing = FALSE,
                                   !.started = 0,
                                   !.browser = IF acquired THEN TRUE ELSE @,
                                   !.isConnected = IF acquired THEN TRUE ELSE @]
    /\ ClientOnly

\* browser.on('disconnected'): the browser of the acquired reference goes away
BrowserDisconnected ==
    /\ client.browser /\ client.isConnected
    /\ client' = [client EXCEPT !.isConnected = FALSE, !.isDisconnected = TRUE]
    /\ ClientOnly

\* client.on('disconnected') up to its setTimeout
Disconnected ==
    /\ client.reconnectAttempts < MaxReconnects
    /\ client.timers < MaxPending
    /\ LET attempts == client.reconnectAttempts + 1
       IN  client' = [client EXCEPT !.reconnectAttempts = attempts,
                                    !.timers = IF attempts > MAX_RECONNECT_ATTEMPTS THEN @
                                               ELSE @ + 1]
    /\ ClientOnly

\* the timeout of the 'disconnected' handler: browser.close() and client.initialize()
ReconnectTimerFires ==
    /\ client.timers > 0
    /\ client' = [client EXCEPT !.timers = @ - 1,
                                !.isConnected = FALSE,
                                !.isDisconnected = IF client.browser /\ client.isConnected
                                                   THEN TRUE ELSE @,
                                !.initializing = TRUE,
                                !.started = @ + 1,
                                !.startedAt = client.reconnectAttempts]
    /\ ClientOnly

\* checkBrowserConnection, run by setInterval, up to its await of client.destroy()
WatchdogChecks ==
    /\ client.browser
    /\ client.destroying < MaxPending
    /\ IF client.isConnected
       THEN client' = [client EXCEPT !.isDisconnected = FALSE]
       ELSE IF client.reconnectAttempts <= MAX_RECONNECT_ATTEMPTS
       THEN client' = [client EXCEPT !.isDisconnected = TRUE,
                                     !.reconnectAttempts = @ + 1,
                                     !.destroying = @ + 1]
       ELSE client' = [client EXCEPT !.isDisconnected = TRUE]
    /\ ClientOnly

\* checkBrowserConnection after client.destroy() and the wait of five seconds:
\* client.initialize(), unless destroy() threw
WatchdogReinitializes ==
    /\ client.destroying > 0
    /\ \E destroyed \in BOOLEAN :
          client' = IF destroyed
                    THEN [client EXCEPT !.destroying = @ - 1,
                                        !.initializing = TRUE,
                                        !.started = @ + 1,
                                        !.startedAt = client.reconnectAttempts]
                    ELSE [client EXCEPT !.destroying = @ - 1]
    /\ ClientOnly

InitClient ==
    /\ variant = "session"
    /\ now = 0
    /\ conversations = EmptyStore.conversations
    /\ arrays = EmptyStore.arrays
    /\ userData = EmptyStore.userData
    /\ req = [h \in Handlers |-> IdleReq]
    /\ received = 0
    /\ calls = 0
    /\ faults = 0
    /\ saved = [u \in Users |-> <<>>]
    /\ upgraded = [u \in Users |-> FALSE]
    /\ dropped = [u \in Users |-> 0]
    /\ warmup = [u \in Users |-> <<>>]
    /\ admin = NoAdminCall
    /\ retry = NoRetry
    /\ client = [NoClient EXCEPT !.initializing = TRUE]

NextClient ==
    \/ Ready
    \/ BrowserDisconnected
    \/ Disconnected
    \/ ReconnectTimerFires
    \/ WatchdogChecks
    \/ WatchdogReinitializes

SpecClient == InitClient /\ [][NextClient]_vars

\* Every await of a handler settles: the provider call returns or fails, the
\* timer of the backoff fires, the send resolves or rejects.
Settles(h) ==
    /\ WF_vars(ProviderFails(h) \/ ProviderSucceeds(h))
    /\ WF_vars(TimerFires(h))
    /\ WF_vars(SendFails(h) \/ SendSucceeds(h))

\* termination is checked of the handler of one inbound message, with no other
\* handler in flight
ReceiveAlone(h) == received < LiveMsgs /\ Receive(h)

NextFair ==
    \E h \in Handlers :
        \/ ReceiveAlone(h)
        \/ ProviderSucceeds(h)
        \/ ProviderFails(h)
        \/ TimerFires(h)
        \/ SendSucceeds(h)
        \/ SendFails(h)

FairSpec == Init /\ [][NextFair]_vars /\ \A h \in Handlers : Settles(h)

(***************************************************************************)
(* retryOperation(operation, maxRetries, baseDelay) on its own, with the   *)
(* delays it computes.  Math.random() is drawn in thousandths; a delay is  *)
(* kept in microseconds, in which every delay drawn is a whole number.     *)
(***************************************************************************)
Thousand == 1000

\* Math.random(), in thousandths: a value in [0, 1)
Randoms == {0, 1, 500, 999}

\* the base delays the handlers pass (reply send, provider call)
BaseDelays == {1000, 2000}
RetryLimits == 1..MaxAttempts

RECURSIVE Pow2(_)
Pow2(n) == IF n = 0 THEN 1 ELSE 2 * Pow2(n - 1)

\* milliseconds in microseconds
Ms(n) == n * Thousand

\* a delay that leaves the halves out: baseDelay * 2^(retries-1) * (1 + random)
DelayUnhalved(baseDelay, retries, random) ==
    baseDelay * Pow2(retries - 1) * (Thousand + random)

\* baseDelay * Math.pow(2, retries - 1) * (0.5 + Math.random() * 0.5)
Delay(baseDelay, retries, random) ==
    (baseDelay * Pow2(retries - 1) * (Thousand + random)) \div 2

CallRetryOperation ==
    /\ retry.pc = "idle"
    /\ \E maxRetries \in RetryLimits, baseDelay \in BaseDelays :
          retry' = [NoRetry EXCEPT !.pc = "running", !.maxRetries = maxRetries,
                                   !.baseDelay = baseDelay]
    /\ UNCHANGED <<variant, now, conversations, arrays, userData, req, received, calls,
                   saved, upgraded, dropped, faults, warmup, admin, client>>

\* return await operation()
OperationSucceeds ==
    /\ retry.pc = "running"
    /\ retry' = [retry EXCEPT !.pc = "returned"]
    /\ UNCHANGED <<variant, now, conversations, arrays, userData, req, received, calls,
                   saved, upgraded, dropped, faults, warmup, admin, client>>

\* the catch block: count the failure, give up at maxRetries, else wait
OperationFails ==
    /\ retry.pc = "running"
    /\ LET retries == retry.retries + 1
       IN  IF retries >= retry.maxRetries
           THEN retry' = [retry EXCEPT !.retries = retries, !.pc = "thrown"]
           ELSE \E random \in Randoms :
                   retry' = [retry EXCEPT !.retries = retries, !.pc = "waiting",
                                          !.waits = Append(@, Delay(retry.baseDelay, retries, random))]
    /\ UNCHANGED <<variant, now, conversations, arrays, userData, req, received, calls,
                   saved, upgraded, dropped, faults, warmup, admin, client>>

\* setTimeout(resolve, delay) fires: the loop runs the operation again
RetryTimerFires ==
    /\ retry.pc = "waiting"
    /\ retry' = [retry EXCEPT !.pc = "running"]
    /\ UNCHANGED <<variant, now, conversations, arrays, userData, req, received, calls,
                   saved, upgraded, dropped, faults, warmup, admin, client>>

InitRetry ==
    /\ variant \in {"webhook", "session"}
    /\ now = 0
    /\ conversations = EmptyStore.conversations
    /\ arrays = EmptyStore.arrays
    /\ userData = EmptyStore.userData
    /\ req = [h \in Handlers |-> IdleReq]
    /\ received = 0
    /\ calls = 0
    /\ faults = 0
    /\ saved = [u \in Users |-> <<>>]
    /\ upgraded = [u \in Users |-> FALSE]
    /\ dropped = [u \in Users |-> 0]
    /\ warmup = [u \in Users |-> <<>>]
    /\ admin = NoAdminCall
    /\ retry = NoRetry
    /\ client = NoClient

NextRetry == CallRetryOperation \/ OperationSucceeds \/ OperationFails \/ RetryTimerFires

SpecRetry == InitRetry /\ [][NextRetry]_vars

(***************************************************************************)
(* Properties of the store                                                  *)
(***************************************************************************)
NextStoreState == Store(conversations', arrays', userData')
HistoryNext(u) == getConversationHistory(NextStoreState, u)

\* the entries one saved exchange puts into a history
Turns(x) == <<Entry("user", x[1]), Entry("assistant", x[2])>>

RECURSIVE Flatten(_)
Flatten(log) == IF log = <<>> THEN <<>> ELSE Turns(Head(log)) \o Flatten(Tail(log))

\* this step is a saveConversation call for u
SavedFor(u) == Len(saved'[u]) = Len(saved[u]) + 1

\* C1 as stated: in every state every history is within 2 * capacity of the
\* user's current premium flag.
C1_Original ==
    \A u \in Users : Len(History(u)) <= 2 * MaxLengthOf(userData[u])

\* C1 as amended: right after each saveConversation call the user's history is
\* within 2 * capacity of the flag current at that call, and in every state it
\* is within 2 * the premium capacity (a downgrade trims nothing).
C1_Amended ==
    /\ [](\A u \in Users : Len(History(u)) <= 2 * PREMIUM_MAX_HISTORY_LENGTH)
    /\ [][\A u \in Users :
            SavedFor(u) => Len(HistoryNext(u)) <= 2 * MaxLengthOf(userData'[u])]_vars

\* a downgraded user whose history is longer than the free capacity allows
C1_Witness ==
    \E u \in Users :
        /\ ~Truthy(isPremiumUser(Current, u))
        /\ Len(History(u)) > 2 * MAX_HISTORY_LENGTH

C6_ClearIsTotal ==
    \A u \in Users :
        /\ saved[u] = <<>> => History(u) = <<>>
        /\ Len(saved[u]) = 1 => History(u) = Turns(saved[u][1])

\* a user whose non-empty history was cleared and who then saved one exchange
C6_Witness ==
    \E u \in Users : dropped[u] > 2 /\ Len(saved[u]) = 1 /\ Len(History(u)) = 2

MoodLog(u) == getMoodHistory(Current, u)
MoodLogNext(u) == getMoodHistory(NextStoreState, u)

\* no history, mood log, premium flag or other user datum changes in this step
StoreUnchanged ==
    /\ conversations' = conversations
    /\ userData' = userData
    /\ \A u \in Users : HistoryNext(u) = History(u)

\* this step moves handler h, which stays with the same message
Moves(h) == req'[h] # req[h] /\ req'[h].id = req[h].id

\* this step is the provider call of h returning a completion
Succeeds(h) == Moves(h) /\ req[h].pc = "calling" /\ req'[h].response # ""

\* this step is a provider call of h failing
FailsCall(h) == Moves(h) /\ req[h].pc = "calling" /\ req'[h].response = ""

CommandNames ==
    {COMMANDS.HELP, COMMANDS.UPGRADE, COMMANDS.MOOD_HISTORY,
     COMMANDS.CLEAR, COMMANDS.EXERCISE, COMMANDS.AFFIRMATION}

\* the token before the first space, lower-cased
Token(body) == toLowerCase(splitFirst(body))

\* C3: when the third provider call for a non-command message fails, the
\* handler offers the fixed apology and nothing else, and no step the handler
\* takes without a completion changes any history or user datum.
C3_ExhaustedRetries ==
    /\ [][\A h \in Handlers :
            (req[h].path = "message" /\ FailsCall(h) /\ req[h].attempts = MaxAttempts) =>
                /\ req'[h].offered = <<Apology>>
                /\ Webhook => req'[h].outbox = <<Apology>>
                /\ req'[h].pc \notin {"calling", "backoff"}]_vars
    /\ [][\A h \in Handlers :
            (req'[h] # req[h] /\ req'[h].path = "message" /\ req'[h].response = "") =>
                StoreUnchanged]_vars
    /\ [](\A h \in Handlers :
            (req[h].path = "message" /\ req[h].pc = "done" /\ req[h].response = ""
                /\ req[h].attempts = MaxAttempts) =>
                /\ req[h].offered = <<Apology>>
                /\ req[h].outbox \in {<<>>, <<Apology>>}
                /\ req[h].savedAt = 0)

\* a second message of a user with a saved exchange failed three times and the
\* apology went out
C3_Witness ==
    \E h \in Handlers :
        /\ req[h].path = "message" /\ req[h].pc = "done"
        /\ req[h].attempts = MaxAttempts /\ req[h].response = ""
        /\ req[h].outbox = <<Apology>>
        /\ Len(History(req[h].from)) = 2

\* C4: when the provider first succeeds on call k for a non-command message,
\* k calls were made and no more follow, the reply offered is the output of
\* call k, delivered when its send succeeds, and that step appends exactly one
\* exchange (the text received, the output) to the sender's history alone.
C4_FirstSuccess ==
    /\ [][\A h \in Handlers :
            (req[h].path = "message" /\ Succeeds(h)) =>
                LET k == req[h].retries + 1
                    u == req[h].from
                IN  /\ k <= MaxAttempts
                    /\ req'[h].attempts = k
                    /\ req'[h].response = ProviderOutput(req[h].id, k)
                    /\ req'[h].offered = <<req'[h].response>>
                    /\ HistoryNext(u) =
                          History(u) \o Turns(Exchange(req[h].body, req'[h].response))
                    /\ \A v \in Users \ {u} : HistoryNext(v) = History(v)]_vars
    /\ [][\A h \in Handlers :
            (req[h].path = "message" /\ req[h].response # "" /\ Moves(h)) =>
                /\ req'[h].attempts = req[h].attempts
                /\ req'[h].response = req[h].response
                /\ StoreUnchanged]_vars
    /\ [](\A h \in Handlers :
            (req[h].path = "message" /\ req[h].response # "" /\ req[h].pc = "done"
                /\ Len(req[h].offered) = 1) =>
                req[h].outbox = <<req[h].response>>)

\* a message answered by the third call, the reply delivered
C4_Witness ==
    \E h \in Handlers :
        /\ req[h].path = "message" /\ req[h].pc = "done"
        /\ req[h].attempts = MaxAttempts
        /\ req[h].response = ProviderOutput(req[h].id, MaxAttempts)
        /\ req[h].outbox = <<req[h].response>>
        /\ Len(History(req[h].from)) = 2

\* C5 as stated: once the provider is being called for a mood report, and ever
\* after, the reported score is in the sender's mood log.
C5_Original ==
    \A h \in Handlers :
        (req[h].path = "message" /\ moodMatch(req[h].body) # 0) =>
            \E i \in 1..Len(MoodLog(req[h].from)) :
                MoodLog(req[h].from)[i].score = moodMatch(req[h].body)

\* C5 as amended: the score of a mood report is appended to the sender's mood
\* log in the step that saves the exchange, after the provider call succeeded;
\* no other step of a non-command handler changes a mood log, so the score is
\* absent when all attempts fail.
C5_Amended ==
    /\ [][\A h \in Handlers :
            (req[h].path = "message" /\ Succeeds(h)) =>
                LET u == req[h].from
                    score == moodMatch(req[h].body)
                IN  /\ score # 0 =>
                          /\ Len(MoodLogNext(u)) = Len(MoodLog(u)) + 1
                          /\ SubSeq(MoodLogNext(u), 1, Len(MoodLog(u))) = MoodLog(u)
                          /\ MoodLogNext(u)[Len(MoodLogNext(u))].score = score
                    /\ score = 0 => MoodLogNext(u) = MoodLog(u)
                    /\ \A v \in Users \ {u} : MoodLogNext(v) = MoodLog(v)]_vars
    /\ [][\A h \in Handlers :
            (req'[h] # req[h] /\ req'[h].path = "message" /\ ~Succeeds(h)) =>
                \A u \in Users : MoodLogNext(u) = MoodLog(u)]_vars

\* a mood report whose three provider calls failed: the mood log is empty
C5_Witness ==
    \E h \in Handlers :
        /\ req[h].path = "message" /\ moodMatch(req[h].body) # 0
        /\ req[h].pc = "done" /\ req[h].response = ""
        /\ req[h].attempts = MaxAttempts
        /\ MoodLog(req[h].from) = <<>>

ExpectedPath(body) ==
    IF Token(body) \in CommandNames
    THEN SubSeq(Token(body), 2, Len(Token(body)))
    ELSE "unknown"

\* C9 as stated: a command text is handled as the command its lower-cased first
\* token names exactly, and as unknown otherwise, with the unknown-command reply.
C9_Original ==
    \A h \in Handlers :
        (req[h].id # 0 /\ req[h].status # 400 /\ startsWith(req[h].body, "/")) =>
            /\ req[h].path = ExpectedPath(req[h].body)
            /\ (ExpectedPath(req[h].body) = "unknown" /\ req[h].offered # <<>>) =>
                   req[h].offered[1] = UnknownCommandMessage

\* C10 as stated: the user turn saved for /exercise or /affirmation is the text
\* received.
C10_Original ==
    [][\A h \in Handlers :
        (req[h].path \in {"exercise", "affirmation"} /\ Succeeds(h)) =>
            LET history == HistoryNext(req[h].from)
            IN  /\ Len(history) >= 2
                /\ history[Len(history) - 1] = Entry("user", req[h].body)]_vars

\* C11 as stated: a failed provider call made for /exercise or /affirmation is
\* retried, up to 3 calls in total, before the command gets any reply.
C11_Original ==
    [][\A h \in Handlers :
        (req[h].path \in {"exercise", "affirmation"} /\ FailsCall(h)
            /\ req[h].attempts < MaxAttempts) =>
            /\ req'[h].pc = "backoff"
            /\ req'[h].offered = <<>>]_vars

(***************************************************************************)
(* Properties of the classification of texts                                *)
(***************************************************************************)
HasExercisePhrase(text) ==
    includes(toLowerCase(text), "coping exercise") \/ includes(toLowerCase(text), "help me cope")

HasAffirmationPhrase(text) ==
    includes(toLowerCase(text), "affirmation") \/ includes(toLowerCase(text), "positive thought")

\* C12 as stated: a text with an exercise phrase and an affirmation phrase goes
\* to the provider with the exercise tag.
C12_Original ==
    (req[1].prompt # "" /\ HasExercisePhrase(req[1].prompt)
        /\ HasAffirmationPhrase(req[1].prompt)) =>
        req[1].userMessage = "[COPING EXERCISE REQUEST] " \o req[1].prompt

\* the words of MoodWords that are lead-ins of the mood pattern, in any case
LeadInWords == {"My mood is", "my mood is", "mood", "I FEEL"}

\* the score a text made of these parts reports, 0 when it is no mood report
ReportedScore(word, numeral) ==
    IF word \in LeadInWords /\ numeral.value \in 1..10 THEN numeral.value ELSE 0

\* the text of the exchange this step saved for u
SavedText(u) == saved'[u][Len(saved'[u])][1]

\* C13: every score in a mood log is between 1 and 10; saving a text adds the
\* entry of its score when it is a lead-in, a number from 1 to 10 and an optional
\* "/10" (so "My mood is 10/10" adds 10), and adds nothing for any other number
\* ("my mood is 11", "mood 0"), which the gateway sends on unchanged as freeform.
C13_MoodRange ==
    /\ [](\A u \in Users : \A i \in 1..Len(MoodLog(u)) : MoodLog(u)[i].score \in 1..10)
    /\ [][\A u \in Users : SavedFor(u) =>
            \A w \in MoodWords, s \in Separators, n \in Numerals, x \in Suffixes :
                SavedText(u) = MoodText(w, s, n, x) =>
                    IF ReportedScore(w, n) # 0
                    THEN /\ Len(MoodLogNext(u)) = Len(MoodLog(u)) + 1
                         /\ MoodLogNext(u)[Len(MoodLogNext(u))].score = ReportedScore(w, n)
                    ELSE MoodLogNext(u) = MoodLog(u)]_vars
    /\ [](\A w \in MoodWords, s \in Separators, n \in Numerals, x \in Suffixes :
            req[1].prompt = MoodText(w, s, n, x) =>
                IF ReportedScore(w, n) # 0
                THEN req[1].userMessage =
                        "[MOOD TRACKING] User reported mood score: " \o n.text
                            \o "/10. Original message: \"" \o req[1].prompt \o "\""
                ELSE req[1].userMessage = req[1].prompt)

\* "my mood is 11" was saved without a mood entry, then "My mood is 10/10" with
\* the entry 10
C13_Witness ==
    \E u \in Users :
        /\ Len(saved[u]) = 2
        /\ saved[u][1][1] = "my mood is 11"
        /\ saved[u][2][1] = "My mood is 10/10"
        /\ Len(MoodLog(u)) = 1
        /\ MoodLog(u)[1].score = 10

(***************************************************************************)
(* Properties of the mood log and of the boundaries                         *)
(***************************************************************************)
\* C14: in every step (a message or command being handled, /clear, a premium
\* change) each user's mood log keeps the entries it has, in place and as they
\* are; entries are only added at the end.
C14_AppendOnly ==
    [][\A u \in Users :
        /\ Len(MoodLogNext(u)) >= Len(MoodLog(u))
        /\ SubSeq(MoodLogNext(u), 1, Len(MoodLog(u))) = MoodLog(u)]_vars

\* a user reported a mood, became premium and cleared the history: the mood
\* entry is still there
C14_Witness ==
    \E h \in Handlers :
        /\ req[h].path = "clear" /\ req[h].pc = "done"
        /\ dropped[req[h].from] = 2
        /\ History(req[h].from) = <<>>
        /\ Truthy(isPremiumUser(Current, req[h].from))
        /\ Len(MoodLog(req[h].from)) = 1

\* C15: a set-premium call whose key is not the configured admin key is
\* answered with 401 and changes no premium flag, history, mood log or any
\* other datum of a user, nor any handler.
C15_Unauthorized ==
    [][(admin' # admin /\ admin'.apiKey # ADMIN_API_KEY) =>
            /\ admin'.status = 401
            /\ StoreUnchanged
            /\ \A u \in Users : MoodLogNext(u) = MoodLog(u)
            /\ \A u \in Users : isPremiumUser(NextStoreState, u) = isPremiumUser(Current, u)
            /\ req' = req]_vars

\* a call with a wrong key was answered 401 while a user has a history and a
\* mood entry
C15_Witness ==
    /\ admin.status = 401
    /\ admin.apiKey = "wrong-key"
    /\ \E u \in Users : Len(History(u)) = 2 /\ Len(MoodLog(u)) = 1

\* C16: in the webhook variant a payload without text or without sender is
\* answered with 400; its handler calls no provider, offers and sends no reply
\* and ends at once, and no history or user datum changes.
C16_BadRequest ==
    /\ [][\A h \in Handlers :
            LET r == req'[h]
            IN  (r.id # req[h].id /\ Webhook /\ (r.body = Missing \/ r.from = Missing)) =>
                    /\ r.status = 400
                    /\ r.pc = "done"
                    /\ r.attempts = 0
                    /\ r.offered = <<>> /\ r.outbox = <<>>
                    /\ StoreUnchanged
                    /\ \A u \in Users : MoodLogNext(u) = MoodLog(u)]_vars
    /\ [](\A h \in Handlers :
            req[h].status = 400 =>
                /\ req[h].pc = "done" /\ req[h].attempts = 0
                /\ req[h].offered = <<>> /\ req[h].outbox = <<>> /\ req[h].savedAt = 0)

\* a payload without text from a user with a saved exchange and a mood entry
\* was answered with 400
C16_Witness ==
    \E h \in Handlers :
        /\ req[h].status = 400 /\ req[h].body = Missing
        /\ req[h].from \in Users
        /\ Len(History(req[h].from)) = 2
        /\ Len(MoodLog(req[h].from)) = 1

\* this step is the last try of h to send the completion failing
LastReplySendFails(h) ==
    /\ Moves(h) /\ req[h].pc = "sending" /\ req'[h].outbox = req[h].outbox
    /\ req[h].path = "message" /\ ~req[h].inCatch
    /\ req[h].maxRetries = ReplySendTries /\ req[h].retries + 1 = ReplySendTries

\* C17 as stated: when the third try to send the reply fails, the handler ends
\* and attempts no further outbound message for that inbound message.
C17_Original ==
    [][\A h \in Handlers :
        LastReplySendFails(h) =>
            /\ req'[h].pc = "done"
            /\ req'[h].offered = req[h].offered]_vars

\* C18 as stated: no failure of a provider call or of a send leaves the handler
\* of an inbound message as an unhandled error.
C18_Original == \A h \in Handlers : ~req[h].unhandled

\* C19: the handler of a non-command message calls the provider at most 3 times;
\* a handler that has returned does nothing more for its message; and, every
\* call, timer and send settling, the handler returns having offered a reply
\* (on the webhook, having answered with it).
C19_Terminates ==
    /\ [](\A h \in Handlers : req[h].path = "message" => req[h].attempts <= MaxAttempts)
    /\ [][\A h \in Handlers :
            (req[h].pc = "done" /\ req'[h] # req[h]) =>
                /\ req'[h].id > req[h].id
                /\ req'[h].attempts <= 1]_vars
    /\ \A h \in Handlers, i \in 1..MaxMsgs :
            (req[h].id = i /\ req[h].path = "message" /\ req[h].pc # "done") ~>
                (/\ req[h].id = i /\ req[h].pc = "done"
                 /\ req[h].offered # <<>>
                 /\ Webhook => req[h].outbox # <<>>)

\* the third call for a message failed and its handler returned with the apology
C19_Witness ==
    \E h \in Handlers :
        /\ req[h].path = "message" /\ req[h].attempts = MaxAttempts
        /\ req[h].response = "" /\ req[h].pc = "done"
        /\ req[h].offered = <<Apology>>

RECURSIVE Sum(_)
Sum(seq) == IF seq = <<>> THEN 0 ELSE Head(seq) + Sum(Tail(seq))

\* C20: the wait after the k-th failed attempt of retryOperation is at least
\* baseDelay * 2^(k-1) / 2 and at most baseDelay * 2^(k-1); there is a wait after
\* every failed attempt but the last, and none after the last; with a base delay
\* of 2000 ms and three failures the waits add up to between 3000 and 6000 ms.
C20_Backoff ==
    /\ \A k \in 1..Len(retry.waits) :
          /\ 2 * retry.waits[k] >= Ms(retry.baseDelay) * Pow2(k - 1)
          /\ retry.waits[k] <= Ms(retry.baseDelay) * Pow2(k - 1)
    /\ retry.pc = "waiting" => Len(retry.waits) = retry.retries
    /\ retry.pc = "running" => Len(retry.waits) = retry.retries
    /\ retry.pc = "thrown" =>
          /\ retry.retries = retry.maxRetries
          /\ Len(retry.waits) = retry.maxRetries - 1
    /\ (retry.pc = "thrown" /\ retry.maxRetries = MaxAttempts /\ retry.baseDelay = 2000) =>
          /\ Sum(retry.waits) >= Ms(3000)
          /\ Sum(retry.waits) <= Ms(6000)

\* three attempts with a base delay of 2000 ms failed, after waits of 1000 ms
\* and 3998 ms
C20_Witness ==
    /\ retry.pc = "thrown" /\ retry.maxRetries = MaxAttempts /\ retry.baseDelay = 2000
    /\ retry.waits = <<Ms(1000), Ms(3998)>>

\* C21: whichever way the handlers of one user's messages interleave, each
\* completion that arrives appends its exchange to the history the store holds
\* at that moment and its mood score to the mood log, so that below the
\* capacity the history is all the exchanges saved since the last clear, in
\* the order of their saves; no other step of a handler changes either.
C21_NoLostUpdate ==
    /\ [](\A u \in Users :
            Len(saved[u]) <= MAX_HISTORY_LENGTH => History(u) = Flatten(saved[u]))
    /\ [][\A h \in Handlers :
            Succeeds(h) =>
                LET u == req[h].from
                    x == saved'[u][Len(saved'[u])]
                    score == moodMatch(x[1])
                IN  /\ saved'[u] = Append(saved[u], x)
                    /\ x[2] = req'[h].response
                    /\ req[h].path = "message" => x[1] = req[h].body
                    /\ Len(History(u)) < 2 * MAX_HISTORY_LENGTH =>
                           HistoryNext(u) = History(u) \o Turns(x)
                    /\ MoodLogNext(u) =
                           IF score # 0
                           THEN Append(MoodLog(u), [score |-> score, timestamp |-> now'])
                           ELSE MoodLog(u)
                    /\ \A v \in Users \ {u} :
                           HistoryNext(v) = History(v) /\ MoodLogNext(v) = MoodLog(v)]_vars
    /\ [][(\E h \in Handlers : Moves(h) /\ ~Succeeds(h) /\ req[h].path # "clear") =>
            \A u \in Users : HistoryNext(u) = History(u) /\ MoodLogNext(u) = MoodLog(u)]_vars

\* two messages of one user were in flight together, the second was answered
\* first, and both exchanges and the mood score are stored
C21_Witness ==
    \E g, h \in Handlers :
        /\ req[g].id = 1 /\ req[h].id = 2 /\ req[g].from = req[h].from
        /\ req[g].pc = "done" /\ req[h].pc = "done"
        /\ req[g].body = "My mood is 7/10" /\ req[h].body = "hello"
        /\ req[g].response # "" /\ req[h].response # ""
        /\ History(req[g].from) =
               Turns(<<req[h].body, req[h].response>>) \o Turns(<<req[g].body, req[g].response>>)
        /\ Len(MoodLog(req[g].from)) = 1

\* the place of the entry with this content in a history, 0 when it has none
PlaceOf(history, content) ==
    IF \E i \in DOMAIN history : history[i].content = content
    THEN CHOOSE i \in DOMAIN history : history[i].content = content
    ELSE 0

\* C22 as stated: of two messages of one user whose exchanges are both in the
\* stored history, the one received first comes first.
C22_Original ==
    \A g, h \in Handlers :
        (/\ req[g].from = req[h].from /\ req[g].id # 0 /\ req[g].id < req[h].id
         /\ req[g].response # "" /\ req[h].response # ""
         /\ PlaceOf(History(req[g].from), req[g].response) # 0
         /\ PlaceOf(History(req[g].from), req[h].response) # 0) =>
            PlaceOf(History(req[g].from), req[g].response)
                < PlaceOf(History(req[g].from), req[h].response)

\* this step is handler h handing a message list to the provider
Calls(h) == req'[h].attempts = req[h].attempts + 1

\* C23: every message list handed to the provider is the system instruction,
\* then the turns of the history array the handler holds, in their order and
\* unchanged, then one user turn made from the prompt, so it is two longer than
\* that history; at the first call for a message that history is the stored
\* history of the sender.
C23_MessageList ==
    [][\A h \in Handlers :
        Calls(h) =>
            LET list == req'[h].messages
                history == HeldHistory(req'[h])
            IN  /\ Len(list) = Len(history) + 2
                /\ list[1] = Entry("system", SYSTEM_PROMPT)
                /\ \A i \in 1..Len(history) : list[i + 1] = history[i]
                /\ list[Len(list)] = Entry("user", UserTurn(req'[h].prompt))
                /\ req'[h].attempts = 1 =>
                       /\ history = History(req'[h].from)
                       /\ req'[h].path = "message" => req'[h].prompt = req'[h].body]_vars

\* a call is under way for a user with a stored exchange: a list of four
C23_Witness ==
    \E h \in Handlers :
        /\ req[h].pc = "calling" /\ req[h].path = "message"
        /\ Len(History(req[h].from)) = 2
        /\ Len(req[h].messages) = 4
        /\ req[h].messages[2].role = "user" /\ req[h].messages[3].role = "assistant"

MoodTag == "[MOOD TRACKING]"

\* C24: for a mood report the last turn of the list handed to the provider is
\* the annotation with the score and the text received, the user turn saved
\* is the text received as it came, and no stored history entry carries the
\* annotation.
C24_MoodAnnotation ==
    /\ [][\A h \in Handlers :
            (Calls(h) /\ req'[h].path = "message" /\ moodMatch(req'[h].body) # 0) =>
                LET list == req'[h].messages
                IN  /\ list[Len(list)].role = "user"
                    /\ list[Len(list)].content =
                           MoodTag \o " User reported mood score: "
                               \o ToString(moodMatch(req'[h].body))
                               \o "/10. Original message: \"" \o req'[h].body \o "\""
                    /\ req'[h].body = "My mood is 7/10" =>
                           list[Len(list)].content =
                               "[MOOD TRACKING] User reported mood score: 7/10. Original message: \"My mood is 7/10\""]_vars
    /\ [][\A h \in Handlers :
            (Succeeds(h) /\ req[h].path = "message" /\ moodMatch(req[h].body) # 0) =>
                LET history == HistoryNext(req[h].from)
                IN  /\ Len(history) >= 2
                    /\ history[Len(history) - 1] = Entry("user", req[h].body)]_vars
    /\ [](\A r \in Refs : \A i \in 1..Len(arrays[r]) :
            ~startsWith(arrays[r][i].content, MoodTag))

\* a mood report was answered: its annotated form went to the provider and
\* its text is the user turn stored
C24_Witness ==
    \E h \in Handlers :
        /\ req[h].pc = "done" /\ req[h].body = "My mood is 7/10" /\ req[h].response # ""
        /\ History(req[h].from) = Turns(<<"My mood is 7/10", req[h].response>>)

\* C25 as stated: once an inbound message of a user has been handled, command
\* or not, answered by the provider or not, the user has a profile with a
\* lastActivity that was set.
C25_Original ==
    \A h \in Handlers :
        (req[h].pc = "done" /\ req[h].status # 400) =>
            /\ userData[req[h].from].exists
            /\ userData[req[h].from].lastActivity > 0

\* C26: the list handed to the provider for a non-command message is made of
\* the text and the history alone: two handlers in flight with the same text
\* and equal histories hand over the same list, whatever the premium flags of
\* their users; and the reply offered is the completion as the provider
\* returned it.
C26_PremiumBlind ==
    /\ [](\A g, h \in Handlers :
            (/\ req[g].pc = "calling" /\ req[h].pc = "calling"
             /\ req[g].path = "message" /\ req[h].path = "message"
             /\ req[g].body = req[h].body
             /\ HeldHistory(req[g]) = HeldHistory(req[h])) =>
                req[g].messages = req[h].messages)
    /\ [][\A h \in Handlers :
            (Calls(h) /\ req'[h].path = "message") =>
                req'[h].messages = MessageList(req'[h].body, HeldHistory(req'[h]))]_vars
    /\ [][\A h \in Handlers :
            (Succeeds(h) /\ req[h].path = "message") =>
                /\ req'[h].response = ProviderOutput(req[h].id, req[h].attempts)
                /\ req'[h].offered = <<req'[h].response>>]_vars

\* a premium user and a free user, with equal histories, have the same text
\* in flight, and the lists handed over are the same
C26_Witness ==
    \E g, h \in Handlers :
        /\ req[g].pc = "calling" /\ req[h].pc = "calling"
        /\ req[g].path = "message" /\ req[g].body = req[h].body
        /\ Truthy(isPremiumUser(Current, req[g].from))
        /\ ~Truthy(isPremiumUser(Current, req[h].from))
        /\ HeldHistory(req[g]) = HeldHistory(req[h])
        /\ req[g].messages = req[h].messages

(***************************************************************************)
(* /mood                                                                    *)
(***************************************************************************)
\* handler h takes in a /mood message that passes validation
AsksMood(h) ==
    /\ received' = received + 1
    /\ req'[h].id = received'
    /\ req'[h].path = "mood"
    /\ req'[h].status # 400

\* the reply to the /mood message handler h took in
MoodReply(h) == IF Webhook THEN req'[h].outbox[1] ELSE req'[h].sending

Scores == 1..10
Buckets == {"(joyful)", "(happy)", "(neutral)", "(sad)", "(very sad)"}

BucketOf(score) ==
    CASE score \in {9, 10} -> "(joyful)"
      [] score \in {7, 8} -> "(happy)"
      [] score \in {5, 6} -> "(neutral)"
      [] score \in {3, 4} -> "(sad)"
      [] score \in {1, 2} -> "(very sad)"

\* a line of the webhook listing, from its colon on
EmojiLine(score, bucket) == ": " \o ToString(score) \o "/10 " \o bucket \o "\n"

\* C27: every score from 1 to 10 that the webhook /mood reply lists carries the
\* emoji of exactly one bucket: joyful for 9 and 10, happy for 7 and 8, neutral
\* for 5 and 6, sad for 3 and 4, very sad for 1 and 2, so that a score equal to
\* a threshold is in the higher bucket.
C27_MoodEmoji ==
    [][\A h \in Handlers :
          AsksMood(h) /\ Webhook =>
              LET moodData == getMoodHistory(Current, req'[h].from)
                  reply == MoodReply(h)
              IN  /\ \A score \in Scores, bucket \in Buckets :
                        includes(reply, EmojiLine(score, bucket)) => bucket = BucketOf(score)
                  /\ \A i \in 1..Len(moodData) :
                        i > Len(moodData) - WebhookShown =>
                            includes(reply, EmojiLine(moodData[i].score,
                                                      BucketOf(moodData[i].score)))]_vars

\* a webhook /mood reply that lists a score at each threshold and a score just
\* under one
C27_Witness ==
    /\ Webhook
    /\ \E h \in Handlers :
          /\ req[h].pc = "done"
          /\ req[h].path = "mood"
          /\ req[h].outbox # <<>>
          /\ includes(req[h].outbox[1], EmojiLine(9, "(joyful)"))
          /\ includes(req[h].outbox[1], EmojiLine(7, "(happy)"))
          /\ includes(req[h].outbox[1], EmojiLine(5, "(neutral)"))
          /\ includes(req[h].outbox[1], EmojiLine(3, "(sad)"))
          /\ includes(req[h].outbox[1], EmojiLine(8, "(happy)"))
          /\ includes(req[h].outbox[1], EmojiLine(2, "(very sad)"))

MoodHeader == "*Your Mood History*\n\n"

\* how many entries a /mood reply shows
Shown == IF Webhook THEN 10 ELSE 7

\* the line of one entry in the listing
ExpectedLine(e) ==
    DateText(e.timestamp) \o ": " \o ToString(e.score) \o "/10"
        \o (IF Webhook THEN " " \o BucketOf(e.score) ELSE "") \o "\n"

RECURSIVE Listing(_, _, _)
Listing(moodData, first, last) ==
    IF first > last THEN ""
    ELSE ExpectedLine(moodData[first]) \o Listing(moodData, first + 1, last)

\* the first of the entries shown
FirstShown(moodData) == IF Len(moodData) > Shown THEN Len(moodData) - Shown + 1 ELSE 1

\* C28: the reply to /mood of a user with recorded moods lists the most recent
\* entries of the log, ten in the webhook variant and seven in the others,
\* oldest first and each with its own score; a user with no recorded mood gets
\* the prompt to start tracking.
C28_MoodListing ==
    [][\A h \in Handlers :
          AsksMood(h) =>
              LET moodData == getMoodHistory(Current, req'[h].from)
                  first == FirstShown(moodData)
                  listing == MoodHeader \o Listing(moodData, first, Len(moodData))
              IN  IF moodData = <<>> THEN MoodReply(h) = NoMoodData
                  ELSE /\ \A i \in 1..Len(moodData), j \in first..Len(moodData) :
                            i < j => moodData[i].timestamp <= moodData[j].timestamp
                       /\ IF Webhook THEN MoodReply(h) = listing
                          ELSE startsWith(MoodReply(h), listing \o "\nAverage mood: ")]_vars

\* a webhook /mood reply made when the log held more than ten entries: it
\* lists the last ten, the oldest entry left out
C28_Witness ==
    /\ Webhook
    /\ \E h \in Handlers :
          LET moodData == getMoodHistory(Current, req[h].from)
          IN  /\ req[h].pc = "done"
              /\ req[h].path = "mood"
              /\ req[h].status = 200
              /\ Len(moodData) = WebhookShown + 1
              /\ req[h].outbox[1] = MoodHeader \o Listing(moodData, 2, Len(moodData))

\* the reply to the /mood of handler h has the upsell note exactly when the
\* user is not premium and the log holds more entries than the reply shows
UpsellExactly(h) ==
    LET moodData == getMoodHistory(Current, req'[h].from)
    IN  includes(MoodReply(h), UpsellNote)
            <=> (~Truthy(isPremiumUser(Current, req'[h].from)) /\ Len(moodData) > Shown)

\* C29: in every transport variant the /mood reply carries the premium upsell
\* note exactly when the user is not premium and the mood log holds more
\* entries than were shown.
C29_Original ==
    [][\A h \in Handlers : AsksMood(h) => UpsellExactly(h)]_vars

\* C30: the stored history of a free user never holds more than 10 messages,
\* and that of a premium user never more than 50.
C30_Original ==
    \A u \in Users :
        Len(History(u)) <= (IF Truthy(isPremiumUser(Current, u)) THEN 50 ELSE 10)

(***************************************************************************)
(* The set-premium endpoint                                                 *)
(***************************************************************************)
\* C31: the isPremium field of every stored profile is true or false,
\* whatever value an authorized set-premium call carried.
C31_Original ==
    \A u \in Users : userData[u].exists => userData[u].isPremium \in {"true", "false"}

\* C39: a set-premium request that presents no credential changes no premium
\* flag, whether or not the server has an admin key configured.
C39_Original ==
    [][(calls' = calls + 1 /\ admin'.apiKey = Undefined) =>
            \A u \in Users : userData'[u] = userData[u]]_vars

(***************************************************************************)
(* The shape of a stored history                                            *)
(***************************************************************************)
RoleAt(i) == IF i % 2 = 1 THEN "user" ELSE "assistant"

\* C32: every stored history has even length and alternates user, assistant
\* from a user turn on; no entry has the role system.
C32_Alternates ==
    \A u \in Users :
        /\ Len(History(u)) % 2 = 0
        /\ \A i \in 1..Len(History(u)) : History(u)[i].role = RoleAt(i)

\* a user upgraded and set back to free, whose history was then trimmed to the
\* free capacity by a save
C32_Witness ==
    \E u \in Users :
        /\ upgraded[u]
        /\ ~Truthy(isPremiumUser(Current, u))
        /\ Len(saved[u]) > PREMIUM_MAX_HISTORY_LENGTH
        /\ Len(History(u)) = 2 * MAX_HISTORY_LENGTH

(***************************************************************************)
(* The history a retried call sends                                         *)
(***************************************************************************)
\* C33: every completion attempt after the first, made for one inbound
\* message, sends the provider the list the attempt before it sent: the
\* history of the user as it was when the message was received.
C33_Original ==
    [][\A h \in Handlers :
          (Calls(h) /\ req[h].attempts >= 1) => req'[h].messages = req[h].messages]_vars

(***************************************************************************)
(* /clear and the messages in flight                                        *)
(***************************************************************************)
\* C34: once a /clear of a user has run, the history of that user holds no
\* exchange of a message received before the /clear.
C34_Original ==
    \A g \in Handlers, h \in Handlers :
        ( /\ req[g].path = "clear" /\ req[g].status # 400
          /\ req[h].from = req[g].from
          /\ req[h].id > 0 /\ req[h].id < req[g].id
          /\ req[h].response # "" )
        => \A i \in 1..Len(History(req[g].from)) :
                History(req[g].from)[i].content # req[h].response

(***************************************************************************)
(* The two mood classifications                                             *)
(***************************************************************************)
\* the user turn of the call of handler h that is under way
SentTurn(h) == req[h].messages[Len(req[h].messages)].content

\* the start of the annotation of a mood report with this score
MoodNote(score) == MoodTag \o " User reported mood score: " \o ToString(score) \o "/10."

\* C35: a mood entry with score s is recorded only by the completion of a
\* message whose prompt carried the mood annotation with the same s, and the
\* completion of an annotated mood report records exactly one entry, whatever
\* the number of attempts made.
C35_MoodAgreement ==
    [][/\ \A u \in Users :
            MoodLogNext(u) # MoodLog(u) =>
                \E h \in Handlers :
                    /\ Succeeds(h) /\ req[h].from = u
                    /\ Len(MoodLogNext(u)) = Len(MoodLog(u)) + 1
                    /\ SubSeq(MoodLogNext(u), 1, Len(MoodLog(u))) = MoodLog(u)
                    /\ startsWith(SentTurn(h),
                                  MoodNote(MoodLogNext(u)[Len(MoodLogNext(u))].score))
       /\ \A h \in Handlers :
            (Succeeds(h) /\ startsWith(SentTurn(h), MoodTag)) =>
                Len(MoodLogNext(req[h].from)) = Len(MoodLog(req[h].from)) + 1]_vars

\* a mood report answered at its second attempt or later: one entry, with the
\* score reported
C35_Witness ==
    \E h \in Handlers :
        /\ req[h].pc = "done" /\ req[h].body = "My mood is 7/10" /\ req[h].response # ""
        /\ req[h].attempts >= 2
        /\ Len(MoodLog(req[h].from)) = 1
        /\ MoodLog(req[h].from)[1].score = 7

(***************************************************************************)
(* The users are kept apart                                                 *)
(***************************************************************************)
\* this step changes the history, the mood log, the premium flag, the
\* lastActivity or the profile of user u
Touches(u) == HistoryNext(u) # History(u) \/ userData'[u] # userData[u]

\* C36: a step changes the history or the user data of a user only if it is a
\* step of a handler of a message of that user, or a set-premium call for
\* that user.
C36_Isolation ==
    [][\A b \in Users :
          Touches(b) =>
              \/ \E h \in Handlers : req'[h] # req[h] /\ req'[h].from = b
              \/ calls' # calls /\ admin'.status = 200 /\ admin'.userId = b]_vars

\* two users were answered by handlers in flight together, and each history
\* holds the exchange of its own user and nothing else
C36_Witness ==
    \E g \in Handlers, h \in Handlers :
        /\ req[g].from # req[h].from
        /\ req[g].pc = "done" /\ req[h].pc = "done"
        /\ req[g].response # "" /\ req[h].response # ""
        /\ req[g].path = "message" /\ req[h].path = "message"
        /\ req[g].id < req[h].id /\ req[g].savedAt > req[h].savedAt
        /\ History(req[g].from) = Turns(<<req[g].body, req[g].response>>)
        /\ History(req[h].from) = Turns(<<req[h].body, req[h].response>>)

(***************************************************************************)
(* Reconnection of the session client                                       *)
(***************************************************************************)
\* C37: since the last 'ready' at most three reinitializations of the client
\* were started, by the 'disconnected' handler and the watchdog together, and
\* reconnectAttempts was at most three when the latest one started.
C37_Original ==
    /\ client.started <= MAX_RECONNECT_ATTEMPTS
    /\ client.startedAt <= MAX_RECONNECT_ATTEMPTS

(***************************************************************************)
(* The answer of the webhook                                                *)
(***************************************************************************)
\* C38: in the webhook variant a request with text and sender, once handled,
\* has been answered 200 with exactly one reply message, whether it was a
\* command, a message the provider answered or one it failed to answer; no
\* request ever has two.
C38_OneReply ==
    Webhook =>
        \A h \in Handlers :
            /\ Len(req[h].outbox) <= 1
            /\ (req[h].pc = "done" /\ req[h].body # Missing /\ req[h].from # Missing) =>
                    /\ req[h].status = 200
                    /\ Len(req[h].outbox) = 1
                    /\ req[h].offered = req[h].outbox
            /\ (req[h].pc \notin {"done", "idle"}) =>
                    req[h].status = 0 /\ req[h].outbox = <<>>

\* a message the provider answered and one it failed for three times, each
\* answered 200 with one reply: the completion, and the apology
C38_Witness ==
    /\ Webhook
    /\ \E g \in Handlers, h \in Handlers :
          /\ req[g].pc = "done" /\ req[h].pc = "done"
          /\ req[g].path = "message" /\ req[h].path = "message"
          /\ req[g].response # "" /\ req[g].outbox = <<req[g].response>>
          /\ req[h].response = "" /\ req[h].attempts = MaxAttempts
          /\ req[h].outbox = <<Apology>>
          /\ req[g].status = 200 /\ req[h].status = 200

====
